---- MODULE Spec2Model ----
(***************************************************************************)
(* The photobooth workflow: the uploader CLI (backend.py), the directory   *)
(* upload helper (poc.py uploadFiles) and the distribution CLI (sender.py) *)
(* against the storage provider (folders, objects, permissions) and the    *)
(* messaging provider.  One behaviour is the life of one program, chosen   *)
(* in Init by prog.                                                        *)
(***************************************************************************)
EXTENDS Integers, Sequences, FiniteSets, TLC

VARIABLES
  prog,            \* which program this behaviour runs
  pc,              \* the statement the program is at
  exit,            \* "running", or how the process ended
  raised,          \* the exception that ended it ("none" while running)
  failedCall,      \* the remote call that raised it ("none" otherwise)
  out,             \* the last line printed
  run,             \* process lifetime number of the uploader (1 = first start)
  iter,            \* number of loop iterations that passed the path check
  folders,         \* storage: folders in creation order, id = index
  objects,         \* storage: objects in creation order, id = index
  perms,           \* storage: permission grants
  batch_number,    \* backend.py module global
  path,            \* uploader: the path last read
  inner_folder_id, \* uploader: id returned by createBatchFolder
  entries,         \* uploadFiles: what getPhotosFromDir(path) returned
  photos,          \* uploadFiles: entries the for loop has not reached yet
  hp_number,       \* sender: phone number read
  req,             \* sender: batch number read
  parent_id,       \* sender: id returned by getParentFolder
  page_token,      \* getURLFromBatchNumber: local page_token
  urls,            \* getURLFromBatchNumber: local urls, then main's urls
  listCalls,       \* list requests made by the current getURLFromBatchNumber call
  todo,            \* sendPhotos: urls the for loop has not reached yet
  message,         \* sendPhotos: local message (its sid), or Unbound
  sent,            \* messages accepted by the messaging provider in this request
  granted,         \* permission created in the current request
  prev             \* the last request that ran to completion

vars == <<prog, pc, exit, raised, failedCall, out, run, iter, folders, objects,
          perms, batch_number, path, inner_folder_id, entries, photos, hp_number,
          req,
          parent_id, page_token, urls, listCalls, todo, message, sent, granted,
          prev>>

storageVars == <<folders, objects, perms>>
uploaderVars == <<run, iter, batch_number, path, inner_folder_id, entries,
                  photos>>
senderVars == <<hp_number, req, parent_id, page_token, urls, listCalls, todo,
                message, sent, granted, prev>>

----------------------------------------------------------------------------
(* Bounds of the model *)

MaxBatch == 3     \* folders one uploader run may create
MaxRuns == 2      \* starts of the uploader process
MaxEntries == 2   \* entries of the directory given to uploadFiles
MaxFolders == 2   \* folders in storage when the sender starts
MaxName == 2      \* largest batch name among them
MaxObjs == 2      \* objects in one of those folders
MaxPages == 3     \* pages the provider cuts one listing into

----------------------------------------------------------------------------
(* Values *)

\* Ids the provider issues are the index of the folder or object in creation
\* order.  A batch name is the number itself: backend.py sends batch_number
\* as the folder name and sender.py queries the digits it read.

PHOTOBOOTH_FOLDER_ID == -1   \* the fixed root folder; provider-issued ids are 1, 2, ...
None == <<>>          \* Python None where a token <<k>> may stand
Unbound == <<>>       \* a local name not yet assigned, where <<sid>> may stand

PathKinds == {"missing", "file", "dir"}

\* variant: os.path.exists in place of os.path.isfile
IsLegitFileAnyPath(p) == p # "missing"
\* os.path.isfile: true of an existing regular file only
isLegitFile(p) == p = "file"

\* variant: except Exception
CaughtAll(exc) == TRUE
\* except HttpError: the one handler of each main
Caught(exc) == exc = "HttpError"

\* an exception leaves the while loop; main's handler prints it when it is an
\* HttpError, otherwise it leaves main too and the interpreter ends the process
Terminate(exc, call) ==
  /\ pc' = "ended"
  /\ raised' = exc
  /\ failedCall' = call
  /\ exit' = IF Caught(exc) THEN "handled" ELSE "uncaught"
  /\ out' = IF Caught(exc) THEN "An error occurred" ELSE "Traceback"

running == exit = "running" /\ pc # "ended"

----------------------------------------------------------------------------
(* Uploader: backend.py *)

\* handleInput, isLegitFile, printFileNotFound / printUploadingMessage
UploaderHandleInput ==
  /\ prog = "backend" /\ running /\ pc = "prompt"
  /\ \E p \in PathKinds :
       /\ path' = p
       /\ IF ~isLegitFile(p)
            THEN /\ out' = "File not found"
                 /\ UNCHANGED <<pc, iter>>
            ELSE /\ batch_number <= MaxBatch
                 /\ out' = "Uploading"
                 /\ pc' = "createBatchFolder"
                 /\ iter' = iter + 1
  /\ UNCHANGED <<prog, exit, raised, failedCall, run, batch_number,
                 inner_folder_id, entries, photos>>
  /\ UNCHANGED storageVars
  /\ UNCHANGED senderVars

\* variant: createBatchFolder without batch_number += 1
createBatchFolderKeepsNumber ==
  /\ prog = "backend" /\ running /\ pc = "createBatchFolder"
  /\ folders' = Append(folders, [name |-> batch_number,
                                 parent |-> PHOTOBOOTH_FOLDER_ID,
                                 trashed |-> FALSE,
                                 run |-> run, iter |-> iter])
  /\ batch_number' = batch_number
  /\ inner_folder_id' = Len(folders')
  /\ pc' = "uploadFile"
  /\ UNCHANGED <<prog, exit, raised, failedCall, out, run, iter, path,
                 entries, photos, objects, perms>>
  /\ UNCHANGED senderVars

\* createBatchFolder, the create call succeeding
createBatchFolder ==
  /\ prog = "backend" /\ running /\ pc = "createBatchFolder"
  /\ folders' = Append(folders, [name |-> batch_number,
                                 parent |-> PHOTOBOOTH_FOLDER_ID,
                                 trashed |-> FALSE,
                                 run |-> run, iter |-> iter])
  /\ batch_number' = batch_number + 1
  /\ inner_folder_id' = Len(folders')
  /\ pc' = "uploadFile"
  /\ UNCHANGED <<prog, exit, raised, failedCall, out, run, iter, path,
                 entries, photos, objects, perms>>
  /\ UNCHANGED senderVars

\* createBatchFolder, the create call raising HttpError
createBatchFolderFails ==
  /\ prog = "backend" /\ running /\ pc = "createBatchFolder"
  /\ Terminate("HttpError", "folder_create")
  /\ UNCHANGED <<prog>>
  /\ UNCHANGED storageVars
  /\ UNCHANGED uploaderVars
  /\ UNCHANGED senderVars

\* variant: uploadFile with parents = [PHOTOBOOTH_FOLDER_ID]
uploadFileUnderRoot ==
  /\ prog = "backend" /\ running /\ pc = "uploadFile"
  /\ objects' = Append(objects, [parent |-> PHOTOBOOTH_FOLDER_ID, iter |-> iter])
  /\ out' = "uploaded successfully"
  /\ pc' = "prompt"
  /\ UNCHANGED <<prog, exit, raised, failedCall, folders, perms>>
  /\ UNCHANGED uploaderVars
  /\ UNCHANGED senderVars

\* uploadFile, the create call succeeding
uploadFile ==
  /\ prog = "backend" /\ running /\ pc = "uploadFile"
  /\ objects' = Append(objects, [parent |-> inner_folder_id, iter |-> iter])
  /\ out' = "uploaded successfully"
  /\ pc' = "prompt"
  /\ UNCHANGED <<prog, exit, raised, failedCall, folders, perms>>
  /\ UNCHANGED uploaderVars
  /\ UNCHANGED senderVars

\* variant: the failed upload caught inside the loop, which prompts again
uploadFileFailsAndContinues ==
  /\ prog = "backend" /\ running /\ pc = "uploadFile"
  /\ out' = "An error occurred"
  /\ pc' = "prompt"
  /\ UNCHANGED <<prog, exit, raised, failedCall>>
  /\ UNCHANGED storageVars
  /\ UNCHANGED uploaderVars
  /\ UNCHANGED senderVars

\* uploadFile, the create call raising HttpError
uploadFileFails ==
  /\ prog = "backend" /\ running /\ pc = "uploadFile"
  /\ Terminate("HttpError", "upload")
  /\ UNCHANGED <<prog>>
  /\ UNCHANGED storageVars
  /\ UNCHANGED uploaderVars
  /\ UNCHANGED senderVars

\* variant: a counter that survives the process
RestartKeepsCounter ==
  /\ prog = "backend" /\ pc = "ended" /\ run < MaxRuns
  /\ run' = run + 1
  /\ batch_number' = batch_number
  /\ pc' = "prompt"
  /\ exit' = "running" /\ raised' = "none" /\ failedCall' = "none"
  /\ out' = "Welcome"
  /\ path' = "missing" /\ inner_folder_id' = 0
  /\ UNCHANGED <<prog, iter, entries, photos>>
  /\ UNCHANGED storageVars
  /\ UNCHANGED senderVars

\* the uploader is started again: the module is loaded anew, batch_number = 1
Restart ==
  /\ prog = "backend" /\ pc = "ended" /\ run < MaxRuns
  /\ run' = run + 1
  /\ batch_number' = 1
  /\ pc' = "prompt"
  /\ exit' = "running" /\ raised' = "none" /\ failedCall' = "none"
  /\ out' = "Welcome"
  /\ path' = "missing" /\ inner_folder_id' = 0
  /\ UNCHANGED <<prog, iter, entries, photos>>
  /\ UNCHANGED storageVars
  /\ UNCHANGED senderVars

----------------------------------------------------------------------------
(* Directory upload: poc.py uploadFiles applied to a directory listing *)

\* one pass of the for loop, the create call succeeding
uploadFilesNext ==
  /\ prog = "uploadFiles" /\ running /\ pc = "uploadFiles"
  /\ photos # <<>>
  /\ objects' = Append(objects, [parent |-> inner_folder_id, iter |-> iter])
  /\ photos' = Tail(photos)
  /\ out' = "uploaded successfully"
  /\ UNCHANGED <<prog, pc, exit, raised, failedCall, folders, perms, run, iter,
                 batch_number, path, inner_folder_id, entries>>
  /\ UNCHANGED senderVars

\* one pass of the for loop, the create call raising HttpError: uploadFiles
\* has no handler, the exception leaves it
uploadFilesFails ==
  /\ prog = "uploadFiles" /\ running /\ pc = "uploadFiles"
  /\ photos # <<>>
  /\ pc' = "ended" /\ exit' = "propagated"
  /\ raised' = "HttpError" /\ failedCall' = "upload"
  /\ UNCHANGED <<prog, out>>
  /\ UNCHANGED storageVars
  /\ UNCHANGED uploaderVars
  /\ UNCHANGED senderVars

\* the for loop is exhausted and uploadFiles returns
uploadFilesReturn ==
  /\ prog = "uploadFiles" /\ running /\ pc = "uploadFiles"
  /\ photos = <<>>
  /\ pc' = "returned"
  /\ UNCHANGED <<prog, exit, raised, failedCall, out>>
  /\ UNCHANGED storageVars
  /\ UNCHANGED uploaderVars
  /\ UNCHANGED senderVars

----------------------------------------------------------------------------
(* Storage provider, as the sender reads it *)

RECURSIVE FoldersNamedFrom(_, _)
\* files.list with q = mimeType folder and trashed=false and name='n':
\* the ids of the matching folders, from index i on
FoldersNamedFrom(i, n) ==
  IF i > Len(folders) THEN <<>>
  ELSE (IF folders[i].name = n /\ ~folders[i].trashed THEN <<i>> ELSE <<>>)
         \o FoldersNamedFrom(i + 1, n)

RECURSIVE ChildrenFrom(_, _)
\* files.list with q = 'pid' in parents: the ids of the objects under pid
ChildrenFrom(i, pid) ==
  IF i > Len(objects) THEN <<>>
  ELSE (IF objects[i].parent = pid THEN <<i>> ELSE <<>>)
         \o ChildrenFrom(i + 1, pid)

Children(pid) == ChildrenFrom(1, pid)

\* the f-string of getURLFromBatchNumber, kept as its three pieces
DownloadUrl(id) == <<"https://drive.google.com/uc?id=", id, "&export=download">>

\* the body of the permission request
ReadByAnyone(fileId) == [fileId |-> fileId, role |-> "reader", type |-> "anyone"]

----------------------------------------------------------------------------
(* Distribution: sender.py *)

Phones == {"91234567"}

\* handleInput, printSendingMessage
SenderHandleInput ==
  /\ prog = "sender" /\ running /\ pc = "prompt"
  /\ \E d \in Phones : hp_number' = <<"+65", d>>
  /\ \E b \in 1..(MaxName + 1) : req' = b
  /\ out' = "Sending photos"
  /\ pc' = "getParentFolder"
  /\ sent' = <<>> /\ granted' = FALSE /\ listCalls' = 0
  /\ UNCHANGED <<prog, exit, raised, failedCall, parent_id, page_token, urls,
                 todo, message, prev>>
  /\ UNCHANGED storageVars
  /\ UNCHANGED uploaderVars

\* variant: main calling getURLFromBatchNumber right after getParentFolder
AfterResolveCollect == "getURLFromBatchNumber"
\* main's next statement after getParentFolder returns
AfterResolve == "changeToGlobalReadPermissions"

\* variant: [-1] in place of [0]
LastOf(files) == files[Len(files)]
\* which of the listed folders getParentFolder takes: [0]
FirstOf(files) == files[1]

\* getParentFolder, the list call succeeding: [0] of the listing, or IndexError
getParentFolder ==
  /\ prog = "sender" /\ running /\ pc = "getParentFolder"
  /\ LET files == FoldersNamedFrom(1, req) IN
       IF files = <<>>
         THEN /\ Terminate("IndexError", "none")
              /\ UNCHANGED parent_id
         ELSE /\ parent_id' = FirstOf(files)
              /\ pc' = AfterResolve
              /\ UNCHANGED <<exit, raised, failedCall, out>>
  /\ UNCHANGED <<prog, hp_number, req, page_token, urls, listCalls, todo,
                 message, sent, granted, prev>>
  /\ UNCHANGED storageVars
  /\ UNCHANGED uploaderVars

\* getParentFolder, the list call raising HttpError
getParentFolderFails ==
  /\ prog = "sender" /\ running /\ pc = "getParentFolder"
  /\ Terminate("HttpError", "list")
  /\ UNCHANGED <<prog>>
  /\ UNCHANGED storageVars
  /\ UNCHANGED uploaderVars
  /\ UNCHANGED senderVars

\* changeToGlobalReadPermissions, the create call succeeding
changeToGlobalReadPermissions ==
  /\ prog = "sender" /\ running /\ pc = "changeToGlobalReadPermissions"
  /\ perms' = perms \cup {ReadByAnyone(parent_id)}
  /\ granted' = TRUE
  /\ pc' = "getURLFromBatchNumber"
  /\ UNCHANGED <<prog, exit, raised, failedCall, out, folders, objects,
                 hp_number, req, parent_id, page_token, urls, listCalls, todo,
                 message, sent, prev>>
  /\ UNCHANGED uploaderVars

\* changeToGlobalReadPermissions, the create call raising HttpError
changeToGlobalReadPermissionsFails ==
  /\ prog = "sender" /\ running /\ pc = "changeToGlobalReadPermissions"
  /\ Terminate("HttpError", "permission_create")
  /\ UNCHANGED <<prog>>
  /\ UNCHANGED storageVars
  /\ UNCHANGED uploaderVars
  /\ UNCHANGED senderVars

\* variant: urls living across calls
getURLEnterKeepingUrls ==
  /\ prog = "sender" /\ running /\ pc = "getURLFromBatchNumber"
  /\ page_token' = None
  /\ urls' = urls
  /\ listCalls' = 0
  /\ pc' = "listPage"
  /\ UNCHANGED <<prog, exit, raised, failedCall, out, hp_number, req,
                 parent_id, todo, message, sent, granted, prev>>
  /\ UNCHANGED storageVars
  /\ UNCHANGED uploaderVars

\* getURLFromBatchNumber is entered: page_token = None, urls = []
getURLEnter ==
  /\ prog = "sender" /\ running /\ pc = "getURLFromBatchNumber"
  /\ page_token' = None
  /\ urls' = <<>>
  /\ listCalls' = 0
  /\ pc' = "listPage"
  /\ UNCHANGED <<prog, exit, raised, failedCall, out, hp_number, req,
                 parent_id, todo, message, sent, granted, prev>>
  /\ UNCHANGED storageVars
  /\ UNCHANGED uploaderVars

\* variant: break after the first page
LoopEndsAlways(tok) == TRUE
\* if page_token is None: break
LoopEnds(tok) == tok = None

\* one pass of the while loop of getURLFromBatchNumber, the list call
\* succeeding.  The provider cuts the listing into at most MaxPages pages of
\* any sizes (empty ones too) and omits nextPageToken on the last one only.
getURLListPage ==
  /\ prog = "sender" /\ running /\ pc = "listPage"
  /\ LET kids == Children(parent_id)
         off == IF page_token = None THEN 0 ELSE page_token[1]
         left == Len(kids) - off
     IN \E c \in 0..left, more \in BOOLEAN :
          /\ (listCalls + 1 >= MaxPages) => (c = left /\ ~more)
          /\ ~more => c = left
          /\ urls' = urls \o [i \in 1..c |-> DownloadUrl(kids[off + i])]
          /\ page_token' = IF more THEN <<off + c>> ELSE None
          /\ listCalls' = listCalls + 1
          /\ IF LoopEnds(page_token')
               THEN /\ pc' = "sendPhotos"
                    /\ todo' = urls'
                    /\ message' = Unbound
               ELSE UNCHANGED <<pc, todo, message>>
  /\ UNCHANGED <<prog, exit, raised, failedCall, out, hp_number, req,
                 parent_id, sent, granted, prev>>
  /\ UNCHANGED storageVars
  /\ UNCHANGED uploaderVars

\* one pass of the while loop, the list call raising HttpError
getURLListPageFails ==
  /\ prog = "sender" /\ running /\ pc = "listPage"
  /\ Terminate("HttpError", "list")
  /\ UNCHANGED <<prog>>
  /\ UNCHANGED storageVars
  /\ UNCHANGED uploaderVars
  /\ UNCHANGED senderVars

\* the message sendPhotos builds for one url
Message(url, hp) ==
  [from_ |-> "whatsapp:+14155238886", media_url |-> <<url>>,
   body |-> "Thank you for coming!", to |-> <<"whatsapp:", hp>>]

\* one pass of the for loop of sendPhotos, the send succeeding
sendPhotosNext ==
  /\ prog = "sender" /\ running /\ pc = "sendPhotos"
  /\ todo # <<>>
  /\ sent' = Append(sent, Message(Head(todo), hp_number))
  /\ message' = <<Len(sent')>>
  /\ todo' = Tail(todo)
  /\ UNCHANGED <<prog, pc, exit, raised, failedCall, out, hp_number, req,
                 parent_id, page_token, urls, listCalls, granted, prev>>
  /\ UNCHANGED storageVars
  /\ UNCHANGED uploaderVars

\* one pass of the for loop, the send raising TwilioRestException
sendPhotosFails ==
  /\ prog = "sender" /\ running /\ pc = "sendPhotos"
  /\ todo # <<>>
  /\ Terminate("TwilioRestException", "send")
  /\ UNCHANGED <<prog>>
  /\ UNCHANGED storageVars
  /\ UNCHANGED uploaderVars
  /\ UNCHANGED senderVars

\* the print after the for loop: message.sid, with message unassigned when
\* the loop body never ran; then main loops to the prompt
sendPhotosReport ==
  /\ prog = "sender" /\ running /\ pc = "sendPhotos"
  /\ todo = <<>>
  /\ IF message = Unbound
       THEN /\ Terminate("UnboundLocalError", "none")
            /\ UNCHANGED prev
       ELSE /\ out' = "Message is successfully sent"
            /\ pc' = "prompt"
            /\ prev' = [batch |-> req, parent |-> parent_id, urls |-> urls,
                        sid |-> message[1]]
            /\ UNCHANGED <<exit, raised, failedCall>>
  /\ UNCHANGED <<prog, hp_number, req, parent_id, page_token, urls, listCalls,
                 todo, message, sent, granted>>
  /\ UNCHANGED storageVars
  /\ UNCHANGED uploaderVars

----------------------------------------------------------------------------
(* Initial states *)

NoPrev == [batch |-> 0, parent |-> 0, urls |-> <<>>, sid |-> 0]

InitIdle ==
  /\ exit = "running" /\ raised = "none" /\ failedCall = "none"
  /\ out = "Welcome"
  /\ perms = {}
  /\ hp_number = <<>> /\ req = 0 /\ parent_id = 0 /\ page_token = None
  /\ urls = <<>> /\ listCalls = 0 /\ todo = <<>> /\ message = Unbound
  /\ sent = <<>> /\ granted = FALSE /\ prev = NoPrev

\* a batch folder as createBatchFolder leaves it
BatchFolder(n, t, it) ==
  [name |-> n, parent |-> PHOTOBOOTH_FOLDER_ID, trashed |-> t, run |-> 0,
   iter |-> it]

RECURSIVE ObjectsOf(_, _)
\* counts[i] objects under folder i, for i from f on
ObjectsOf(counts, f) ==
  IF f > Len(counts) THEN <<>>
  ELSE [i \in 1..counts[f] |-> [parent |-> f, iter |-> f]]
         \o ObjectsOf(counts, f + 1)

\* backend.py starts on an empty root folder
InitBackend ==
  /\ prog = "backend" /\ pc = "prompt"
  /\ run = 1 /\ iter = 0 /\ batch_number = 1
  /\ folders = <<>> /\ objects = <<>>
  /\ path = "missing" /\ inner_folder_id = 0
  /\ entries = <<>> /\ photos = <<>>
  /\ InitIdle

\* uploadFiles is called with a batch folder and a directory of n entries
InitUploadFiles ==
  /\ prog = "uploadFiles" /\ pc = "uploadFiles"
  /\ run = 1 /\ batch_number = 1
  /\ \E k \in 1..MaxFolders :
       /\ folders = [i \in 1..k |-> BatchFolder(i, FALSE, i)]
       /\ \E f \in 1..k : inner_folder_id = f /\ iter = f
  /\ objects = <<>>
  /\ path = "dir"
  /\ \E n \in 0..MaxEntries : entries = [i \in 1..n |-> i]
  /\ photos = entries
  /\ InitIdle

\* sender.py starts on whatever earlier uploader runs left in storage: up to
\* MaxFolders batch folders, some trashed since (those drawn empty), the
\* others holding up to MaxObjs objects
InitSender ==
  /\ prog = "sender" /\ pc = "prompt"
  /\ run = 1 /\ iter = 0 /\ batch_number = 1
  /\ \E k \in 0..MaxFolders :
       \E names \in [1..k -> 1..MaxName], tr \in [1..k -> BOOLEAN],
          counts \in [1..k -> 0..MaxObjs] :
         /\ \A i \in 1..k : tr[i] => counts[i] = 0
         /\ folders = [i \in 1..k |-> BatchFolder(names[i], tr[i], i)]
         /\ objects = ObjectsOf(counts, 1)
  /\ path = "missing" /\ inner_folder_id = 0
  /\ entries = <<>> /\ photos = <<>>
  /\ InitIdle

Init == InitBackend \/ InitUploadFiles \/ InitSender

Next ==
  \/ UploaderHandleInput
  \/ createBatchFolder
  \/ createBatchFolderFails
  \/ uploadFile
  \/ uploadFileFails
  \/ Restart
  \/ uploadFilesNext
  \/ uploadFilesFails
  \/ uploadFilesReturn
  \/ SenderHandleInput
  \/ getParentFolder
  \/ getParentFolderFails
  \/ changeToGlobalReadPermissions
  \/ changeToGlobalReadPermissionsFails
  \/ getURLEnter
  \/ getURLListPage
  \/ getURLListPageFails
  \/ sendPhotosNext
  \/ sendPhotosFails
  \/ sendPhotosReport

Spec == Init /\ [][Next]_vars

----------------------------------------------------------------------------
(* Properties *)

\* the folders the uploader run r created, as indices up to i
OfRunUpTo(r, i) == {j \in 1..i : folders[j].run = r}
OfRun(r) == OfRunUpTo(r, Len(folders))

\* C1: within one run of the uploader the k-th folder created is named k:
\* the names are 1, 2, 3, ... in creation order, without gap or repeat,
\* whatever paths were entered before
C1_BatchNamesSequential ==
  prog = "backend" =>
    \A i \in DOMAIN folders :
      folders[i].name = Cardinality(OfRunUpTo(folders[i].run, i))

\* C1 witness: a run has created its third folder, named 3, and an invalid
\* path has been entered since
C1_Witness ==
  /\ prog = "backend" /\ run = 1 /\ Len(folders) = 3
  /\ folders[3].name = 3
  /\ pc = "prompt" /\ path = "missing"

\* C2: entering a path that is not an existing file changes nothing but what
\* is printed: counter, folders and objects stay, the loop is at the prompt
\* again and the process keeps running
C2_InvalidPathChangesNothing ==
  [][(prog = "backend" /\ pc = "prompt" /\ exit = "running"
        /\ path' \in {"missing", "dir"})
      => (/\ batch_number' = batch_number
          /\ folders' = folders /\ objects' = objects /\ perms' = perms
          /\ pc' = "prompt" /\ exit' = "running")]_vars

\* C2 witness: a directory path was refused after one batch had been uploaded
C2_Witness ==
  /\ prog = "backend" /\ pc = "prompt" /\ out = "File not found"
  /\ path = "dir" /\ batch_number = 2 /\ Len(objects) = 1

\* the URLs of the objects listed under pid, in listing order
UrlsOfChildren(pid) ==
  LET kids == Children(pid) IN
    [i \in 1..Len(kids) |->
       <<"https://drive.google.com/uc?id=", kids[i], "&export=download">>]

\* C3: getURLFromBatchNumber returns after the page without nextPageToken,
\* with exactly one URL per listed object in page order, and requests no
\* page after that one
C3_CollectAllPagesOnce ==
  /\ [](prog = "sender" =>
         /\ pc = "sendPhotos" =>
              /\ urls = UrlsOfChildren(parent_id)
              /\ page_token = None
              /\ listCalls \in 1..MaxPages
         /\ (pc = "listPage" /\ listCalls > 0) =>
              /\ page_token # None
              /\ urls = SubSeq(UrlsOfChildren(parent_id), 1, page_token[1]))
  /\ [][(prog = "sender" /\ pc = "listPage" /\ pc' # "ended")
          => /\ listCalls' = listCalls + 1
             /\ (page_token' = None) <=> (pc' = "sendPhotos")]_vars

\* C3 witness: two objects were collected over three pages
C3_Witness ==
  /\ prog = "sender" /\ pc = "sendPhotos" /\ listCalls = 3
  /\ Len(urls) = 2 /\ urls[1] # urls[2] /\ todo = urls

IsBatchMatch(i) == folders[i].name = req /\ ~folders[i].trashed

\* C4: getParentFolder returns the first non-trashed folder named req; with
\* no such folder the request ends in an error before any grant, listing or
\* send, and no identifier is returned
C4_ResolveFirstOrFail ==
  prog = "sender" =>
    /\ pc \in {"changeToGlobalReadPermissions", "getURLFromBatchNumber",
               "listPage", "sendPhotos"} =>
         /\ parent_id \in DOMAIN folders
         /\ IsBatchMatch(parent_id)
         /\ \A j \in 1..(parent_id - 1) : ~IsBatchMatch(j)
    /\ raised = "IndexError" =>
         /\ \A j \in DOMAIN folders : ~IsBatchMatch(j)
         /\ pc = "ended" /\ exit = "uncaught"
         /\ ~granted /\ listCalls = 0 /\ sent = <<>>
         /\ parent_id = prev.parent
    /\ (pc = "ended" /\ \A j \in DOMAIN folders : ~IsBatchMatch(j)) =>
         raised \in {"IndexError", "HttpError"} /\ ~granted /\ sent = <<>>

\* C4 witness: one request resolved its folder and ran to the end, the next
\* asked for a name only a trashed folder carries
C4_Witness ==
  /\ prog = "sender" /\ raised = "IndexError"
  /\ \E j \in DOMAIN folders : folders[j].name = req /\ folders[j].trashed
  /\ prev.parent \in DOMAIN folders /\ folders[prev.parent].name = prev.batch

\* C5: whatever list the collect step produced, the empty one included,
\* sendPhotos has sent one message per URL when its loop is done, each with
\* that URL alone and to whatsapp: + number, then reports the last message
\* and the loop prompts again
C5_DeliverReportsLast ==
  [][(prog = "sender" /\ pc = "sendPhotos" /\ todo = <<>>)
      => /\ pc' = "prompt" /\ exit' = "running"
         /\ Len(sent) = Len(urls)
         /\ \A i \in DOMAIN sent :
              /\ sent[i].media_url = <<urls[i]>>
              /\ sent[i].to = <<"whatsapp:", hp_number>>
         /\ out' = "Message is successfully sent"
         /\ prev'.sid = Len(urls)]_vars

StorageCalls == {"folder_create", "upload", "list", "permission_create"}

\* C6 as stated: any failed remote call, storage or messaging, is caught by
\* the handler of main, which prints the error, and the run ends
C6_AnyRemoteFailureHandled ==
  (prog \in {"backend", "sender"} /\ failedCall # "none") =>
    /\ pc = "ended" /\ exit = "handled" /\ out = "An error occurred"

\* C6 amended: a failed storage call (HttpError) is caught by the handler of
\* main, which prints the error; a failed send is not caught by it and ends
\* the process uncaught; either way the process ends there, with no retry
\* and no further prompt
C6_StorageHandledSendUncaught ==
  /\ [](prog \in {"backend", "sender"} =>
         /\ failedCall \in StorageCalls =>
              /\ pc = "ended" /\ exit = "handled"
              /\ raised = "HttpError" /\ out = "An error occurred"
         /\ failedCall = "send" =>
              /\ pc = "ended" /\ exit = "uncaught"
              /\ raised = "TwilioRestException" /\ out = "Traceback"
         /\ exit = "handled" => failedCall \in StorageCalls)
  /\ [][(prog \in {"backend", "sender"} /\ failedCall # "none")
          => run' = run + 1]_vars

\* C6 witness: a send failed after an earlier message of the request went out
C6_Witness ==
  /\ prog = "sender" /\ failedCall = "send" /\ Len(sent) = 1
  /\ exit = "uncaught"

\* C7: an iteration on a valid path creates one folder under the root, the
\* objects it uploads lie under that folder and no other, one per resolved
\* file; at the prompt after n iterations the run has created n folders
C7_OneFolderPerIteration ==
  /\ prog = "backend" =>
       /\ \A i \in DOMAIN folders :
            /\ folders[i].parent = PHOTOBOOTH_FOLDER_ID
            /\ \A j \in DOMAIN folders : folders[j].iter = folders[i].iter => j = i
       /\ \A o \in DOMAIN objects :
            /\ objects[o].parent \in DOMAIN folders
            /\ folders[objects[o].parent].iter = objects[o].iter
       /\ pc = "prompt" =>
            /\ Cardinality(OfRun(run)) = batch_number - 1
            /\ \A i \in OfRun(run) : Len(Children(i)) = 1
  /\ prog = "uploadFiles" =>
       /\ \A o \in DOMAIN objects : objects[o].parent = inner_folder_id
       /\ Len(objects) + Len(photos) = Len(entries)
       /\ pc = "returned" => Len(Children(inner_folder_id)) = Len(entries)

\* C7 witness: the second iteration of a run has uploaded its file
C7_Witness ==
  /\ prog = "backend" /\ pc = "prompt" /\ batch_number = 3
  /\ Len(objects) = 2 /\ objects[2].parent = 2

\* C8: every start of the uploader numbers from 1 whatever storage holds, so
\* the first folder of a later run repeats the name of a folder an earlier
\* run left, and two non-trashed folders then share a name
C8_RestartRepeatsNames ==
  prog = "backend" =>
    /\ pc \in {"prompt", "createBatchFolder"} =>
         batch_number = 1 + Cardinality(OfRun(run))
    /\ \A i, j \in DOMAIN folders :
         folders[i].run < folders[j].run =>
           \E a \in OfRun(folders[i].run), b \in OfRun(folders[j].run) :
             /\ folders[b].name = 1
             /\ folders[a].name = folders[b].name
             /\ ~folders[a].trashed /\ ~folders[b].trashed

\* C8 witness: after a restart, storage holds two non-trashed folders of the
\* same name
C8_Witness ==
  /\ prog = "backend" /\ run = 2
  /\ \E i, j \in DOMAIN folders :
       /\ i # j /\ folders[i].name = folders[j].name
       /\ ~folders[i].trashed /\ ~folders[j].trashed

C10_GrantBeforeCollect ==
  /\ [](prog = "sender" =>
         /\ (pc \in {"getURLFromBatchNumber", "listPage", "sendPhotos"}
               \/ listCalls > 0 \/ sent # <<>>) =>
              granted /\ ReadByAnyone(parent_id) \in perms
         /\ (pc = "ended" /\ granted) => ReadByAnyone(parent_id) \in perms
         /\ sent # <<>> => listCalls > 0)
  /\ [][perms \subseteq perms']_vars

\* C10 witness: a send failed after the grant, which is still in place
C10_Witness ==
  /\ prog = "sender" /\ pc = "ended" /\ failedCall = "send"
  /\ granted /\ ReadByAnyone(parent_id) \in perms

\* C11: an upload step that adds no object (the create call failed) ends the
\* run there, leaving folders and counter as they are; no later file of the
\* batch is uploaded and no prompt follows; the folder created for the
\* batch, the objects already in it and the advanced counter all remain
C11_FailedUploadAbortsKeepsState ==
  /\ [](/\ (prog = "backend" /\ failedCall = "upload") =>
            /\ pc = "ended" /\ exit = "handled"
            /\ inner_folder_id \in DOMAIN folders
            /\ folders[inner_folder_id].run = run
            /\ folders[inner_folder_id].name = batch_number - 1
            /\ Children(inner_folder_id) = <<>>
            /\ batch_number = 1 + Cardinality(OfRun(run))
            /\ \A i \in OfRun(run) \ {inner_folder_id} : Len(Children(i)) = 1
        /\ (prog = "uploadFiles" /\ failedCall = "upload") =>
            /\ pc = "ended" /\ photos # <<>>
            /\ inner_folder_id \in DOMAIN folders
            /\ Len(Children(inner_folder_id)) = Len(entries) - Len(photos))
  /\ [][/\ ((pc = "uploadFile" \/ (pc = "uploadFiles" /\ photos # <<>>))
              /\ objects' = objects) =>
            /\ pc' = "ended" /\ failedCall' = "upload"
            /\ exit' # "running"
            /\ folders' = folders
            /\ batch_number' = batch_number /\ photos' = photos
        /\ failedCall = "upload" =>
            /\ prog = "backend" /\ run' = run + 1
            /\ folders' = folders /\ objects' = objects]_vars

\* C11 witness: the upload of a run's second batch failed; folder 2 stays,
\* empty, beside the first batch, and the counter stands at 3
C11_Witness ==
  /\ prog = "backend" /\ run = 1 /\ failedCall = "upload"
  /\ Len(folders) = 2 /\ Len(objects) = 1 /\ batch_number = 3

====
